---- MODULE Spec2Model ----
(***************************************************************************)
(* Channel lifecycle state machine of GNSS-SDR                              *)
(* (src/algorithms/channel/libs/channel_fsm.cc), a boost::statechart        *)
(* machine with four states.  A transition destroys the current state       *)
(* object (its destructor is the exit action) and then constructs the       *)
(* destination state object (its constructor is the entry action).          *)
(***************************************************************************)
EXTENDS Integers, Sequences, FiniteSets, TLC

\* Number of Event_* calls explored in one run.
MaxEvents == 4

\* A null shared_ptr.
NULL == "nullptr"

\* Acquisition providers, tracking providers and queues the host can install.
AcqProviders == {"acqA", "acqB"}
TrkProviders == {"trkA", "trkB"}
Queues == {"queueA", "queueB"}
\* Channel numbers the host can install (0 is the constructor's value).
ChannelIds == {0, 7}

\* The events of the machine (the Ev_channel_* structs).
Events == {"start_acquisition", "valid_acquisition", "failed_acquisition_repeat",
           "failed_acquisition_no_repeat", "failed_tracking_standby"}

\* The ways a build ends the process on a null shared_ptr dereference: the
\* virtual call through address 0 faults, or the pointer's assertion aborts.
Signals == {"SIGSEGV", "SIGABRT"}

VARIABLES
    state,        \* active state of the machine; "NONE" once the process died
    acq_,         \* ChannelFsm::acq_
    trk_,         \* ChannelFsm::trk_
    queue_,       \* ChannelFsm::queue_
    channel_,     \* ChannelFsm::channel_
    resetCalls,   \* number of reset() calls the acquisition providers received
    trackCalls,   \* number of start_tracking() calls the tracking providers received
    queues,       \* per queue, the messages handled so far, oldest first
    fault,        \* "none", or the signal that ended the process
    lastOp,       \* the last operation called on the object
    prevState,    \* the active state when lastOp was called
    effects,      \* provider and queue calls made by lastOp, in call order
    nEvents,      \* number of Event_* calls made
    nAccepted     \* per event, number of calls that took a transition and returned

vars == <<state, acq_, trk_, queue_, channel_, resetCalls, trackCalls, queues,
          fault, lastOp, prevState, effects, nEvents, nAccepted>>

States == {"IDLE", "ACQUIRING", "TRACKING", "WAITING"}

(***************************************************************************)
(* The GPS CNAV message decoder (gps_cnav_navigation_message.cc) and its   *)
(* bit field reader have their own runs (SpecCnav, SpecReader below); in a *)
(* run of one object the variables of the other objects hold NULL.         *)
(***************************************************************************)
VARIABLES
    b_flag_ephemeris_1,  \* Gps_CNAV_Navigation_Message::b_flag_ephemeris_1
    b_flag_ephemeris_2,  \* ...::b_flag_ephemeris_2
    b_flag_iono_valid,   \* ...::b_flag_iono_valid
    b_flag_utc_valid,    \* ...::b_flag_utc_valid
    d_TOW,               \* ...::d_TOW
    sat_info,            \* the members only reset() writes
    ephemeris_record,    \* ...::ephemeris_record
    iono_record,         \* ...::iono_record
    utc_model_record,    \* ...::utc_model_record
    cnavOp,              \* the last operation called on the decoder
    ret,                 \* what that operation returned
    toe10,               \* raw Toe of the last type-10 page decoded since the last
                         \* reset or publication, NoToe if none
    toe11,               \* the same for type-11 pages
    refused,             \* have_new_ephemeris() returned false with both halves
                         \* seen, since the last reset or publication
    lastHeader           \* PRN, TOW count and alert bit of the page decoded last

cnavVars == <<b_flag_ephemeris_1, b_flag_ephemeris_2, b_flag_iono_valid,
              b_flag_utc_valid, d_TOW, sat_info, ephemeris_record, iono_record,
              utc_model_record, cnavOp, ret, toe10, toe11, refused, lastHeader>>

VARIABLES
    bits,        \* the bit block given to the reader
    parameter,   \* the field descriptor given to the reader
    uvalue,      \* the 64-bit register read_navigation_unsigned returned
    svalue,      \* the 64-bit register read_navigation_signed returned
    bvalue,      \* what read_navigation_bool returned
    rpc          \* "call" before the reads, "done" after

readerVars == <<bits, parameter, uvalue, svalue, bvalue, rpc>>

NoChannelFsm ==
    /\ state = NULL /\ acq_ = NULL /\ trk_ = NULL /\ queue_ = NULL /\ channel_ = NULL
    /\ resetCalls = NULL /\ trackCalls = NULL /\ queues = NULL /\ fault = NULL
    /\ lastOp = NULL /\ prevState = NULL /\ effects = NULL /\ nEvents = NULL
    /\ nAccepted = NULL
NoDecoder ==
    /\ b_flag_ephemeris_1 = NULL /\ b_flag_ephemeris_2 = NULL
    /\ b_flag_iono_valid = NULL /\ b_flag_utc_valid = NULL
    /\ d_TOW = NULL /\ sat_info = NULL /\ ephemeris_record = NULL
    /\ iono_record = NULL /\ utc_model_record = NULL /\ cnavOp = NULL /\ ret = NULL
    /\ toe10 = NULL /\ toe11 = NULL /\ refused = NULL /\ lastHeader = NULL
NoReader ==
    /\ bits = NULL /\ parameter = NULL /\ uvalue = NULL /\ svalue = NULL
    /\ bvalue = NULL /\ rpc = NULL

(***************************************************************************)
(* The part of the program that an event handler reads and writes, as a    *)
(* record, so that a handler is a composition of the functions it calls.   *)
(***************************************************************************)
World == [state |-> state, resetCalls |-> resetCalls, trackCalls |-> trackCalls,
          queues |-> queues, fault |-> fault, effects |-> <<>>]

Call(name, on, msg) == [call |-> name, on |-> on, msg |-> msg]

\* acq_->reset(), trk_->start_tracking() and queue_->handle() through a null
\* pointer are undefined behaviour.  reset(), start_tracking() and handle() are
\* virtual, so the call loads the vtable from address 0; the builds differ only
\* in which signal ends the process.  The calls made before the fault stay made.
\* The process dies with signal sig: no state object is active any more.
Die(w, sig) == [w EXCEPT !.fault = sig, !.state = "NONE"]

\* ControlMessageFactory::GetQueueMessage(who, what)
GetQueueMessage(who, what) == <<who, what>>

\* gr::msg_queue::handle(msg) on queue q: the message is appended to q.
handle(w, q, msg) ==
    [w EXCEPT !.queues[q] = Append(@, msg),
              !.effects = Append(@, Call("handle", q, msg))]

\* The guard "queue_ != gr::msg_queue::make()": make() returns a pointer to a
\* queue it has just allocated, which no stored pointer (null included) equals.
QueueGuard == queue_ # "freshly_made_queue"

\* ChannelFsm::start_acquisition()
start_acquisition(w, sig) ==
    IF acq_ = NULL THEN Die(w, sig)
    ELSE [w EXCEPT !.resetCalls = @ + 1,
                   !.effects = Append(@, Call("reset", acq_, <<>>))]

\* The three functions that push on the queue share this tail.
Notify(w, what, sig) ==
    IF QueueGuard
    THEN IF queue_ = NULL THEN Die(w, sig)
         ELSE handle(w, queue_, GetQueueMessage(channel_, what))
    ELSE w

\* Variant: the message is pushed before the tracking provider is started.
start_tracking_notify_first(w, sig) ==
    IF trk_ = NULL THEN Die(w, sig)
    ELSE LET w1 == Notify(w, 1, sig)
         IN  IF w1.fault # "none" THEN w1
             ELSE [w1 EXCEPT !.trackCalls = @ + 1,
                             !.effects = Append(@, Call("start_tracking", trk_, <<>>))]

\* ChannelFsm::start_tracking()
start_tracking(w, sig) ==
    IF trk_ = NULL THEN Die(w, sig)
    ELSE Notify([w EXCEPT !.trackCalls = @ + 1,
                          !.effects = Append(@, Call("start_tracking", trk_, <<>>))],
                1, sig)

\* ChannelFsm::request_satellite()
request_satellite(w, sig) == Notify(w, 0, sig)

\* Variant: the stop notification carries the code of request_satellite.
notify_stop_tracking_what0(w, sig) == Notify(w, 0, sig)

\* ChannelFsm::notify_stop_tracking()
notify_stop_tracking(w, sig) == Notify(w, 2, sig)

(***************************************************************************)
(* The four state classes: reactions, constructor (entry), destructor      *)
(* (exit).                                                                 *)
(***************************************************************************)
\* Variant: IDLE also reacts to valid_acquisition.
channel_idle_fsm_S0_reactions_also_valid ==
    {<<"start_acquisition", "ACQUIRING">>, <<"valid_acquisition", "TRACKING">>}
channel_idle_fsm_S0_reactions == {<<"start_acquisition", "ACQUIRING">>}
\* Variant: the IDLE constructor asks for a satellite.
channel_idle_fsm_S0_ctor_requests(w, sig) == request_satellite(w, sig)
channel_idle_fsm_S0_ctor(w, sig) == w

channel_acquiring_fsm_S1_reactions ==
    {<<"failed_acquisition_no_repeat", "WAITING">>,
     <<"failed_acquisition_repeat", "ACQUIRING">>,
     <<"valid_acquisition", "TRACKING">>}
channel_acquiring_fsm_S1_ctor(w, sig) == start_acquisition(w, sig)

\* Variant: TRACKING has no reaction to start_acquisition.
channel_tracking_fsm_S2_reactions_no_reacq == {<<"failed_tracking_standby", "IDLE">>}
channel_tracking_fsm_S2_reactions ==
    {<<"failed_tracking_standby", "IDLE">>,
     <<"start_acquisition", "ACQUIRING">>}
channel_tracking_fsm_S2_ctor(w, sig) == start_tracking(w, sig)
\* Variant: leaving TRACKING tells nobody.
channel_tracking_fsm_S2_dtor_silent(w, sig) == w
channel_tracking_fsm_S2_dtor(w, sig) == notify_stop_tracking(w, sig)

channel_waiting_fsm_S3_reactions == {<<"start_acquisition", "ACQUIRING">>}
\* Variant: the WAITING constructor has an empty body.
channel_waiting_fsm_S3_ctor_empty(w, sig) == w
channel_waiting_fsm_S3_ctor(w, sig) == request_satellite(w, sig)

reactions(s) ==
    CASE s = "IDLE" -> channel_idle_fsm_S0_reactions
      [] s = "ACQUIRING" -> channel_acquiring_fsm_S1_reactions
      [] s = "TRACKING" -> channel_tracking_fsm_S2_reactions
      [] s = "WAITING" -> channel_waiting_fsm_S3_reactions
      [] OTHER -> {}

\* Entering state s: its constructor runs, then s is the active state.
Enter(s, w, sig) ==
    LET w1 == CASE s = "IDLE" -> channel_idle_fsm_S0_ctor(w, sig)
                [] s = "ACQUIRING" -> channel_acquiring_fsm_S1_ctor(w, sig)
                [] s = "TRACKING" -> channel_tracking_fsm_S2_ctor(w, sig)
                [] s = "WAITING" -> channel_waiting_fsm_S3_ctor(w, sig)
    IN  IF w1.fault # "none" THEN w1 ELSE [w1 EXCEPT !.state = s]

\* Leaving state s: its destructor runs.
Exit(s, w, sig) ==
    IF s = "TRACKING" THEN channel_tracking_fsm_S2_dtor(w, sig) ELSE w

\* Variant: a transition to the active state itself runs no exit and no entry.
process_event_internal_self(ev, w, sig) ==
    LET rs == {r \in reactions(w.state) : r[1] = ev}
    IN  IF rs = {} THEN w
        ELSE LET dest == (CHOOSE r \in rs : TRUE)[2]
                 w1 == Exit(w.state, w, sig)
             IN  IF dest = w.state THEN w
                 ELSE IF w1.fault # "none" THEN w1 ELSE Enter(dest, w1, sig)

\* Variant: the destination is constructed before the active state is destroyed.
process_event_enter_first(ev, w, sig) ==
    LET rs == {r \in reactions(w.state) : r[1] = ev}
    IN  IF rs = {} THEN w
        ELSE LET dest == (CHOOSE r \in rs : TRUE)[2]
                 w1 == Enter(dest, w, sig)
             IN  IF w1.fault # "none" THEN w1
                 ELSE LET w2 == Exit(w.state, w1, sig)
                      IN  IF w2.fault # "none" THEN w2 ELSE [w2 EXCEPT !.state = dest]

\* state_machine::process_event(ev): the first reaction of the active state
\* that names ev exits the active state and enters the destination; an event
\* no reaction names is discarded.
process_event(ev, w, sig) ==
    LET rs == {r \in reactions(w.state) : r[1] = ev}
    IN  IF rs = {} THEN w
        ELSE LET dest == (CHOOSE r \in rs : TRUE)[2]
                 w1 == Exit(w.state, w, sig)
             IN  IF w1.fault # "none" THEN w1 ELSE Enter(dest, w1, sig)

\* The initial state of the machine (template argument of sc::state_machine).
InitialState == "IDLE"

\* state_machine::initiate(): the initial state is entered.
initiate(w, sig) == Enter(InitialState, w, sig)

(***************************************************************************)
(* Construction.                                                           *)
(***************************************************************************)
Op(kind, name, arg) == [kind |-> kind, name |-> name, arg |-> arg]

Fresh == [state |-> "NONE",
          resetCalls |-> 0,
          trackCalls |-> 0,
          queues |-> [q \in Queues |-> <<>>],
          fault |-> "none", effects |-> <<>>]

\* ChannelFsm::ChannelFsm() and ChannelFsm::ChannelFsm(acquisition)
Init ==
    /\ acq_ \in AcqProviders \cup {NULL}
    /\ trk_ = NULL
    /\ queue_ = NULL
    /\ channel_ = 0
    /\ \E sig \in Signals :
        LET w == initiate(Fresh, sig)
        IN  /\ state = w.state
            /\ resetCalls = w.resetCalls
            /\ trackCalls = w.trackCalls
            /\ queues = w.queues
            /\ fault = w.fault
            /\ effects = w.effects
    /\ lastOp = Op("ctor", "ChannelFsm", acq_)
    /\ prevState = "NONE"
    /\ nEvents = 0
    /\ nAccepted = [e \in Events |-> 0]
    /\ NoDecoder /\ NoReader

(***************************************************************************)
(* Events.                                                                 *)
(***************************************************************************)
\* The body shared by the five Event_* methods: process_event, then logging.
Deliver(ev) ==
    /\ fault = "none"
    /\ nEvents < MaxEvents
    /\ \E sig \in Signals :
        LET w == process_event(ev, World, sig)
            taken == \E r \in reactions(state) : r[1] = ev
        IN  /\ state' = w.state
            /\ resetCalls' = w.resetCalls
            /\ trackCalls' = w.trackCalls
            /\ queues' = w.queues
            /\ fault' = w.fault
            /\ effects' = w.effects
            /\ nAccepted' = IF taken /\ w.fault = "none"
                            THEN [nAccepted EXCEPT ![ev] = @ + 1]
                            ELSE nAccepted
    /\ lastOp' = Op("event", ev, NULL)
    /\ prevState' = state
    /\ nEvents' = nEvents + 1
    /\ UNCHANGED <<acq_, trk_, queue_, channel_>>
    /\ UNCHANGED <<cnavVars, readerVars>>

Event_start_acquisition == Deliver("start_acquisition")
Event_valid_acquisition == Deliver("valid_acquisition")
Event_failed_acquisition_repeat == Deliver("failed_acquisition_repeat")
Event_failed_acquisition_no_repeat == Deliver("failed_acquisition_no_repeat")
Event_failed_tracking_standby == Deliver("failed_tracking_standby")

(***************************************************************************)
(* Setters.                                                                *)
(***************************************************************************)
SetterFrame(name, arg) ==
    /\ fault = "none"
    /\ lastOp' = Op("setter", name, arg)
    /\ prevState' = state
    /\ effects' = <<>>
    /\ UNCHANGED <<state, resetCalls, trackCalls, queues, fault, nEvents, nAccepted>>
    /\ UNCHANGED <<cnavVars, readerVars>>

set_acquisition(acquisition) ==
    /\ acq_' = acquisition
    /\ SetterFrame("set_acquisition", acquisition)
    /\ UNCHANGED <<trk_, queue_, channel_>>

set_tracking(tracking) ==
    /\ trk_' = tracking
    /\ SetterFrame("set_tracking", tracking)
    /\ UNCHANGED <<acq_, queue_, channel_>>

\* Variant: a queue once bound is kept.
set_queue_first_wins(queue) ==
    /\ queue_' = IF queue_ = NULL THEN queue ELSE queue_
    /\ SetterFrame("set_queue", queue)
    /\ UNCHANGED <<acq_, trk_, channel_>>

set_queue(queue) ==
    /\ queue_' = queue
    /\ SetterFrame("set_queue", queue)
    /\ UNCHANGED <<acq_, trk_, channel_>>

set_channel(channel) ==
    /\ channel_' = channel
    /\ SetterFrame("set_channel", channel)
    /\ UNCHANGED <<acq_, trk_, queue_>>

Next ==
    \/ Event_start_acquisition
    \/ Event_valid_acquisition
    \/ Event_failed_acquisition_repeat
    \/ Event_failed_acquisition_no_repeat
    \/ Event_failed_tracking_standby
    \/ \E a \in AcqProviders \cup {NULL} : set_acquisition(a)
    \/ \E t \in TrkProviders \cup {NULL} : set_tracking(t)
    \/ \E q \in Queues \cup {NULL} : set_queue(q)
    \/ \E c \in ChannelIds : set_channel(c)

Spec == Init /\ [][Next]_vars

TypeOK ==
    /\ state \in States \cup {"NONE"}
    /\ acq_ \in AcqProviders \cup {NULL}
    /\ trk_ \in TrkProviders \cup {NULL}
    /\ queue_ \in Queues \cup {NULL}
    /\ channel_ \in ChannelIds
    /\ fault \in Signals \cup {"none"}
    /\ nEvents \in 0..MaxEvents

(***************************************************************************)
(* The transition table of the specification, section 4.E.                 *)
(***************************************************************************)
TableDomain ==
    {<<"IDLE", "start_acquisition">>,
     <<"ACQUIRING", "valid_acquisition">>,
     <<"ACQUIRING", "failed_acquisition_repeat">>,
     <<"ACQUIRING", "failed_acquisition_no_repeat">>,
     <<"TRACKING", "start_acquisition">>,
     <<"TRACKING", "failed_tracking_standby">>,
     <<"WAITING", "start_acquisition">>}

TableNext(s, ev) ==
    CASE <<s, ev>> = <<"IDLE", "start_acquisition">> -> "ACQUIRING"
      [] <<s, ev>> = <<"ACQUIRING", "valid_acquisition">> -> "TRACKING"
      [] <<s, ev>> = <<"ACQUIRING", "failed_acquisition_repeat">> -> "ACQUIRING"
      [] <<s, ev>> = <<"ACQUIRING", "failed_acquisition_no_repeat">> -> "WAITING"
      [] <<s, ev>> = <<"TRACKING", "start_acquisition">> -> "ACQUIRING"
      [] <<s, ev>> = <<"TRACKING", "failed_tracking_standby">> -> "IDLE"
      [] <<s, ev>> = <<"WAITING", "start_acquisition">> -> "ACQUIRING"
      [] OTHER -> s

IsEvent == lastOp.kind = "event"
AllBound == acq_ # NULL /\ trk_ # NULL /\ queue_ # NULL

\* The last operation was an event the table lists for the state it met.
Listed == IsEvent /\ <<prevState, lastOp.name>> \in TableDomain
\* The last operation was a listed event that ended with state s active.
Entered(s) == Listed /\ TableNext(prevState, lastOp.name) = s /\ state = s

\* The calls of the last operation that are call name, in call order.
CallsOf(name) == SelectSeq(effects, LAMBDA c : c.call = name)
\* The messages the last operation enqueued with the given "what".
Enqueued(what) == SelectSeq(effects, LAMBDA c : c.call = "handle" /\ c.msg[2] = what)

\* C1: with acquisition, tracking and queue bound, the state after an event is
\* the one the transition table gives (the old state for an unlisted pair), and
\* no other operation changes the state.
C1_TransitionTable ==
    /\ (IsEvent /\ AllBound) => state = TableNext(prevState, lastOp.name)
    /\ lastOp.kind = "setter" => state = prevState

\* C1 witness: start_acquisition met TRACKING, everything bound, and led to ACQUIRING.
C1_Witness ==
    /\ AllBound
    /\ IsEvent /\ lastOp.name = "start_acquisition"
    /\ prevState = "TRACKING" /\ state = "ACQUIRING"

\* C2: an event the table does not list for the current state changes nothing:
\* not the state, not the providers' call counts, not the queues; the call returns.
C2_UnlistedIgnored ==
    [][(lastOp'.kind = "event" /\ <<state, lastOp'.name>> \notin TableDomain)
         => (UNCHANGED <<state, resetCalls, trackCalls, queues, fault>>
             /\ effects' = <<>>)]_vars

\* C2 witness: valid_acquisition was delivered in IDLE and the machine stayed in IDLE.
C2_Witness ==
    /\ IsEvent /\ lastOp.name = "valid_acquisition"
    /\ prevState = "IDLE" /\ state = "IDLE" /\ effects = <<>>

\* C3: with no queue bound and both providers bound, a listed event still takes
\* its transition, the call returns without an error, and nothing is enqueued.
C3_UnboundQueueHarmless ==
    (Listed /\ queue_ = NULL /\ acq_ # NULL /\ trk_ # NULL)
        => /\ fault = "none"
           /\ state = TableNext(prevState, lastOp.name)
           /\ CallsOf("handle") = <<>>

\* The last operation was a listed event whose entry action needs a provider
\* that is not bound.
NeedsMissingProvider ==
    /\ Listed
    /\ \/ TableNext(prevState, lastOp.name) = "ACQUIRING" /\ acq_ = NULL
       \/ TableNext(prevState, lastOp.name) = "TRACKING" /\ trk_ = NULL

\* C4: an event whose entry action needs an unbound provider returns to its
\* caller (with the error) and leaves the machine in the state it was in.
C4_MissingCapabilityReverts ==
    NeedsMissingProvider => (fault = "none" /\ state = prevState)

\* All messages ever handled by any queue whose "what" is the given one.
RECURSIVE CountWhat(_, _)
CountWhat(qs, what) ==
    IF qs = {} THEN 0
    ELSE LET q == CHOOSE x \in qs : TRUE
         IN  Len(SelectSeq(queues[q], LAMBDA m : m[2] = what)) + CountWhat(qs \ {q}, what)

\* C5: an event that enters ACQUIRING (the self-transition included) calls
\* reset() exactly once, on the bound acquisition provider; and the number of
\* reset() calls equals the number of accepted start_acquisition events plus the
\* number of accepted failed_acquisition_repeat events.
C5_ResetOncePerAcquiringEntry ==
    /\ Entered("ACQUIRING") => CallsOf("reset") = <<Call("reset", acq_, <<>>)>>
    /\ resetCalls = nAccepted["start_acquisition"] + nAccepted["failed_acquisition_repeat"]

\* C5 witness: the self-transition of ACQUIRING was taken and reset() was called
\* for it, after an earlier entry into ACQUIRING.
C5_Witness ==
    /\ Entered("ACQUIRING") /\ prevState = "ACQUIRING"
    /\ lastOp.name = "failed_acquisition_repeat"
    /\ Len(CallsOf("reset")) = 1
    /\ resetCalls = 2

\* C6: an event that enters TRACKING calls start_tracking() on the bound tracking
\* provider and then enqueues exactly one message (channel_, 1) on the bound
\* queue, in that order; a message with what = 1 is enqueued by nothing else.
C6_TrackingEntry ==
    /\ Entered("TRACKING") =>
          /\ Len(effects) >= 1
          /\ effects[1] = Call("start_tracking", trk_, <<>>)
          /\ CallsOf("start_tracking") = <<effects[1]>>
          /\ queue_ # NULL => effects = <<effects[1], Call("handle", queue_, <<channel_, 1>>)>>
    /\ Enqueued(1) # <<>> => (IsEvent /\ prevState = "ACQUIRING"
                                /\ lastOp.name = "valid_acquisition")
    /\ CountWhat(Queues, 1) = nAccepted["valid_acquisition"]

\* C6 witness: TRACKING was entered on channel 7 and (7, 1) is on the queue.
C6_Witness ==
    /\ Entered("TRACKING")
    /\ queue_ # NULL /\ channel_ = 7
    /\ Len(effects) = 2 /\ effects[2].msg = <<7, 1>>

\* The last operation was an event that left TRACKING.
LeftTracking ==
    /\ IsEvent /\ prevState = "TRACKING"
    /\ lastOp.name \in {"failed_tracking_standby", "start_acquisition"}

\* C7: an event that leaves TRACKING with a queue bound enqueues exactly one
\* message (channel_, 2), before anything else it does; a message with what = 2
\* is enqueued by nothing else.
C7_TrackingExit ==
    /\ (LeftTracking /\ queue_ # NULL) =>
          /\ Enqueued(2) = <<Call("handle", queue_, <<channel_, 2>>)>>
          /\ effects[1] = Call("handle", queue_, <<channel_, 2>>)
    /\ Enqueued(2) # <<>> => LeftTracking

\* C7 witness: TRACKING was left for ACQUIRING and the message (channel_, 2)
\* was enqueued.
C7_Witness ==
    /\ LeftTracking /\ lastOp.name = "start_acquisition"
    /\ state = "ACQUIRING" /\ queue_ # NULL
    /\ Len(Enqueued(2)) = 1

\* C8: WAITING is entered only by failed_acquisition_no_repeat in ACQUIRING; the
\* entry enqueues exactly one message (channel_, 0) on the bound queue and calls
\* no provider; a message with what = 0 is enqueued by nothing else.
C8_WaitingEntry ==
    /\ (IsEvent /\ state = "WAITING" /\ prevState # "WAITING") =>
          (prevState = "ACQUIRING" /\ lastOp.name = "failed_acquisition_no_repeat")
    /\ Entered("WAITING") =>
          /\ queue_ # NULL => effects = <<Call("handle", queue_, <<channel_, 0>>)>>
          /\ CallsOf("reset") = <<>> /\ CallsOf("start_tracking") = <<>>
    /\ Enqueued(0) # <<>> => Entered("WAITING")
    /\ CountWhat(Queues, 0) = nAccepted["failed_acquisition_no_repeat"]

\* C8 witness: WAITING was entered and (channel_, 0) was enqueued.
C8_Witness ==
    /\ Entered("WAITING") /\ queue_ # NULL
    /\ effects = <<Call("handle", queue_, <<channel_, 0>>)>>

\* C9: when construction returns the machine is in IDLE, no provider has been
\* called and no queue holds a message.
C9_ConstructedIdle ==
    lastOp.kind = "ctor" =>
        /\ state = "IDLE" /\ fault = "none"
        /\ effects = <<>>
        /\ resetCalls = 0 /\ trackCalls = 0
        /\ \A q \in Queues : queues[q] = <<>>

\* C9 witness: a machine just constructed with an acquisition provider.
C9_Witness ==
    lastOp.kind = "ctor" /\ acq_ # NULL /\ state = "IDLE" /\ nEvents = 0

\* C10: a setter installs its argument whatever was installed before, changes
\* neither the state nor any provider's call count nor any queue; repeating the
\* same setter call changes nothing; and every call an event makes goes to the
\* provider, queue and channel number installed at that moment.
C10_Step ==
    /\ lastOp'.kind = "setter" =>
          /\ UNCHANGED <<state, resetCalls, trackCalls, queues, fault>>
          /\ effects' = <<>>
          /\ lastOp'.name = "set_acquisition" => (acq_' = lastOp'.arg /\ UNCHANGED <<trk_, queue_, channel_>>)
          /\ lastOp'.name = "set_tracking" => (trk_' = lastOp'.arg /\ UNCHANGED <<acq_, queue_, channel_>>)
          /\ lastOp'.name = "set_queue" => (queue_' = lastOp'.arg /\ UNCHANGED <<acq_, trk_, channel_>>)
          /\ lastOp'.name = "set_channel" => (channel_' = lastOp'.arg /\ UNCHANGED <<acq_, trk_, queue_>>)
    /\ (lastOp.kind = "setter" /\ lastOp' = lastOp) =>
          UNCHANGED <<state, acq_, trk_, queue_, channel_, resetCalls, trackCalls, queues, fault>>
    /\ lastOp'.kind = "event" =>
          /\ UNCHANGED <<acq_, trk_, queue_, channel_>>
          /\ \A i \in 1..Len(effects') :
                LET c == effects'[i]
                IN  /\ c.call = "reset" => c.on = acq_
                    /\ c.call = "start_tracking" => c.on = trk_
                    /\ c.call = "handle" => (c.on = queue_ /\ c.msg[1] = channel_)

C10_SettersLastWriteWins == [][C10_Step]_vars

\* C10 witness: queueA was used, then replaced by queueB and channel 0 by 7, and
\* the next action pushed on queueB with channel number 7.
C10_Witness ==
    /\ IsEvent /\ queue_ = "queueB" /\ channel_ = 7
    /\ queues["queueA"] # <<>> /\ queues["queueA"][1][1] = 0
    /\ CallsOf("handle") # <<>> /\ CallsOf("handle")[1].on = "queueB"
    /\ CallsOf("handle")[1].msg[1] = 7

(***************************************************************************)
(* The CNAV decoder, Gps_CNAV_Navigation_Message.                          *)
(*                                                                         *)
(* A double is written m * 2^e * pi^k with m odd (or all three 0), so that *)
(* equal doubles are equal records; every product the decoder forms is an  *)
(* integer times a power of two, times pi for the angles.                  *)
(***************************************************************************)
DZero == [m |-> 0, e |-> 0, pi |-> 0]

RECURSIVE Norm(_)
Norm(x) ==
    IF x.m = 0 THEN DZero
    ELSE IF x.m % 2 = 0 THEN Norm([x EXCEPT !.m = x.m \div 2, !.e = x.e + 1])
    ELSE x

\* static_cast<double>(i)
ToDouble(i) == Norm([m |-> i, e |-> 0, pi |-> 0])

\* x * y on doubles
DMul(x, y) == Norm([m |-> x.m * y.m, e |-> x.e + y.e, pi |-> x.pi + y.pi])

\* x < -4095.9 for a double x that holds an integer
LessThanMinus4095_9(x) == 10 * (x.m * 2^(x.e)) < 0 - 40959

TWO(e) == [m |-> 1, e |-> e, pi |-> 0]
PI_TWO(e) == [m |-> 1, e |-> e, pi |-> 1]

\* The scale factors CNAV_*_LSB of GPS_CNAV.h.
GPS_CNAV_LSB ==
    [CNAV_TOW_LSB |-> 6,
     CNAV_TOP1_LSB |-> 300,
     CNAV_TOE1_LSB |-> 300,
     CNAV_TOE2_LSB |-> 300,
     CNAV_TOC_LSB |-> 300,
     CNAV_DELTA_TLS_LSB |-> 1,
     CNAV_TOT_LSB |-> 16,
     CNAV_WN_OT_LSB |-> 1,
     CNAV_WN_LSF_LSB |-> 1,
     CNAV_DN_LSB |-> 1,
     CNAV_DELTA_TLSF_LSB |-> 1,
     CNAV_DELTA_A_LSB |-> TWO(0 - 9),
     CNAV_A_DOT_LSB |-> TWO(0 - 21),
     CNAV_DELTA_N0_LSB |-> PI_TWO(0 - 44),
     CNAV_DELTA_N0_DOT_LSB |-> PI_TWO(0 - 57),
     CNAV_M0_LSB |-> PI_TWO(0 - 32),
     CNAV_E_ECCENTRICITY_LSB |-> TWO(0 - 34),
     CNAV_OMEGA_LSB |-> PI_TWO(0 - 32),
     CNAV_OMEGA0_LSB |-> PI_TWO(0 - 32),
     CNAV_DELTA_OMEGA_DOT_LSB |-> PI_TWO(0 - 44),
     CNAV_I0_LSB |-> PI_TWO(0 - 32),
     CNAV_I0_DOT_LSB |-> PI_TWO(0 - 44),
     CNAV_CIS_LSB |-> TWO(0 - 30),
     CNAV_CIC_LSB |-> TWO(0 - 30),
     CNAV_CRS_LSB |-> TWO(0 - 8),
     CNAV_CRC_LSB |-> TWO(0 - 8),
     CNAV_CUS_LSB |-> TWO(0 - 30),
     CNAV_CUC_LSB |-> TWO(0 - 30),
     CNAV_AF0_LSB |-> TWO(0 - 35),
     CNAV_AF1_LSB |-> TWO(0 - 48),
     CNAV_AF2_LSB |-> TWO(0 - 60),
     CNAV_TGD_LSB |-> TWO(0 - 35),
     CNAV_ISCL1_LSB |-> TWO(0 - 35),
     CNAV_ISCL2_LSB |-> TWO(0 - 35),
     CNAV_ISCL5I_LSB |-> TWO(0 - 35),
     CNAV_ISCL5Q_LSB |-> TWO(0 - 35),
     CNAV_ALPHA0_LSB |-> TWO(0 - 30),
     CNAV_ALPHA1_LSB |-> TWO(0 - 27),
     CNAV_ALPHA2_LSB |-> TWO(0 - 24),
     CNAV_ALPHA3_LSB |-> TWO(0 - 24),
     CNAV_BETA0_LSB |-> TWO(11),
     CNAV_BETA1_LSB |-> TWO(14),
     CNAV_BETA2_LSB |-> TWO(16),
     CNAV_BETA3_LSB |-> TWO(16),
     CNAV_A0_LSB |-> TWO(0 - 35),
     CNAV_A1_LSB |-> TWO(0 - 51),
     CNAV_A2_LSB |-> TWO(0 - 68)]

CNAV_LSB(name) == GPS_CNAV_LSB[name]

\* The descriptors CNAV_* of GPS_CNAV.h that decode_page reads.
CnavDescriptors ==
    {"CNAV_PRN", "CNAV_TOW", "CNAV_ALERT_FLAG",
     "CNAV_MSG_TYPE", "CNAV_WN", "CNAV_HEALTH",
     "CNAV_TOP1", "CNAV_URA", "CNAV_TOE1",
     "CNAV_DELTA_A", "CNAV_A_DOT", "CNAV_DELTA_N0",
     "CNAV_DELTA_N0_DOT", "CNAV_M0", "CNAV_E_ECCENTRICITY",
     "CNAV_OMEGA", "CNAV_INTEGRITY_FLAG", "CNAV_L2_PHASING_FLAG",
     "CNAV_TOE2", "CNAV_OMEGA0", "CNAV_DELTA_OMEGA_DOT",
     "CNAV_I0", "CNAV_I0_DOT", "CNAV_CIS",
     "CNAV_CIC", "CNAV_CRS", "CNAV_CRC",
     "CNAV_CUS", "CNAV_CUC", "CNAV_TOC",
     "CNAV_URA_NED0", "CNAV_URA_NED1", "CNAV_URA_NED2",
     "CNAV_AF0", "CNAV_AF1", "CNAV_AF2",
     "CNAV_TGD", "CNAV_ISCL1", "CNAV_ISCL2",
     "CNAV_ISCL5I", "CNAV_ISCL5Q", "CNAV_ALPHA0",
     "CNAV_ALPHA1", "CNAV_ALPHA2", "CNAV_ALPHA3",
     "CNAV_BETA0", "CNAV_BETA1", "CNAV_BETA2",
     "CNAV_BETA3", "CNAV_A0", "CNAV_A1",
     "CNAV_A2", "CNAV_DELTA_TLS", "CNAV_TOT",
     "CNAV_WN_OT", "CNAV_WN_LSF", "CNAV_DN",
     "CNAV_DELTA_TLSF"}

\* The number of bits of the descriptors decode_page reads unsigned or as a
\* flag, and of the five group delays.
GPS_CNAV_WIDTH ==
    [CNAV_PRN |-> 6,
     CNAV_MSG_TYPE |-> 6,
     CNAV_TOW |-> 17,
     CNAV_ALERT_FLAG |-> 1,
     CNAV_WN |-> 13,
     CNAV_HEALTH |-> 3,
     CNAV_TOP1 |-> 11,
     CNAV_TOE1 |-> 11,
     CNAV_E_ECCENTRICITY |-> 33,
     CNAV_TOE2 |-> 11,
     CNAV_TOC |-> 11,
     CNAV_URA_NED1 |-> 3,
     CNAV_URA_NED2 |-> 3,
     CNAV_TGD |-> 13,
     CNAV_ISCL1 |-> 13,
     CNAV_ISCL2 |-> 13,
     CNAV_ISCL5I |-> 13,
     CNAV_ISCL5Q |-> 13]

CNAV_WIDTH(F) == GPS_CNAV_WIDTH[F]

(***************************************************************************)
(* A page is given by its fields: data_bits[F] is the integer that the     *)
(* bits of descriptor F spell in two's complement (-1 for a set flag).     *)
(* What the three readers return for it is what C17 establishes for them.  *)
(***************************************************************************)
\* read_navigation_signed(data_bits, F)
page_signed(data_bits, F) == data_bits[F]

\* read_navigation_unsigned(data_bits, F)
page_unsigned(data_bits, F) ==
    IF data_bits[F] < 0 THEN data_bits[F] + 2^CNAV_WIDTH(F) ELSE data_bits[F]

\* read_navigation_bool(data_bits, F)
page_bool(data_bits, F) == data_bits[F] < 0

\* The field's bits for the unsigned number u.
ToPattern(u, F) == IF u >= 2^(CNAV_WIDTH(F) - 1) THEN u - 2^CNAV_WIDTH(F) ELSE u

\* field = static_cast<int32_t>(read); field *= LSB;
IntField(stored, read, lsb) ==
    LET field == read
    IN  field * CNAV_LSB(lsb)

\* field = static_cast<double>(read); field *= LSB;
DoubleField(stored, read, lsb) ==
    LET field == ToDouble(read)
    IN  DMul(field, CNAV_LSB(lsb))

\* Variant: the test for "not available" is on the magnitude.
GroupDelay_magnitude(stored, read, lsb) ==
    LET field == ToDouble(read)
        checked == IF 10 * read > 40959 THEN DZero ELSE field
    IN  DMul(checked, CNAV_LSB(lsb))

\* field = static_cast<double>(read); if (field < -4095.9) field = 0.0; field *= LSB;
GroupDelay(stored, read, lsb) ==
    LET field == ToDouble(read)
        checked == IF LessThanMinus4095_9(field) THEN DZero ELSE field
    IN  DMul(checked, CNAV_LSB(lsb))

\* The decoder's members, as decode_page and the have_new_* methods see them.
Decoder == [b_flag_ephemeris_1 |-> b_flag_ephemeris_1,
            b_flag_ephemeris_2 |-> b_flag_ephemeris_2,
            b_flag_iono_valid |-> b_flag_iono_valid,
            b_flag_utc_valid |-> b_flag_utc_valid,
            d_TOW |-> d_TOW,
            ephemeris_record |-> ephemeris_record,
            iono_record |-> iono_record,
            utc_model_record |-> utc_model_record]

\* Variant: the PRN of the first page is kept.
decode_common_first_prn(D, data_bits) ==
    LET tow == IntField(D.d_TOW, page_unsigned(data_bits, "CNAV_TOW"), "CNAV_TOW_LSB")
    IN  [D EXCEPT !.d_TOW = tow,
                  !.ephemeris_record =
                      [@ EXCEPT !.i_satellite_PRN =
                                    IF @ = 0 THEN page_unsigned(data_bits, "CNAV_PRN") ELSE @,
                                !.d_TOW = tow,
                                !.b_alert_flag = page_bool(data_bits, "CNAV_ALERT_FLAG")]]

\* decode_page, the fields common to all messages.
decode_common(D, data_bits) ==
    LET tow == IntField(D.d_TOW, page_unsigned(data_bits, "CNAV_TOW"), "CNAV_TOW_LSB")
    IN  [D EXCEPT !.d_TOW = tow,
                  !.ephemeris_record =
                      [@ EXCEPT !.i_satellite_PRN = page_unsigned(data_bits, "CNAV_PRN"),
                                !.d_TOW = tow,
                                !.b_alert_flag = page_bool(data_bits, "CNAV_ALERT_FLAG")]]

\* decode_page, case 10
decode_case_10(D, data_bits) ==
    [D EXCEPT !.ephemeris_record =
                  [@ EXCEPT !.i_GPS_week = page_unsigned(data_bits, "CNAV_WN"),
                             !.i_signal_health = page_unsigned(data_bits, "CNAV_HEALTH"),
                             !.d_Top = IntField(@, page_unsigned(data_bits, "CNAV_TOP1"), "CNAV_TOP1_LSB"),
                             !.d_URA0 = ToDouble(page_signed(data_bits, "CNAV_URA")),
                             !.d_Toe1 = IntField(@, page_unsigned(data_bits, "CNAV_TOE1"), "CNAV_TOE1_LSB"),
                             !.d_DELTA_A = DoubleField(@, page_signed(data_bits, "CNAV_DELTA_A"), "CNAV_DELTA_A_LSB"),
                             !.d_A_DOT = DoubleField(@, page_signed(data_bits, "CNAV_A_DOT"), "CNAV_A_DOT_LSB"),
                             !.d_Delta_n = DoubleField(@, page_signed(data_bits, "CNAV_DELTA_N0"), "CNAV_DELTA_N0_LSB"),
                             !.d_DELTA_DOT_N = DoubleField(@, page_signed(data_bits, "CNAV_DELTA_N0_DOT"), "CNAV_DELTA_N0_DOT_LSB"),
                             !.d_M_0 = DoubleField(@, page_signed(data_bits, "CNAV_M0"), "CNAV_M0_LSB"),
                             !.d_e_eccentricity = DoubleField(@, page_unsigned(data_bits, "CNAV_E_ECCENTRICITY"), "CNAV_E_ECCENTRICITY_LSB"),
                             !.d_OMEGA = DoubleField(@, page_signed(data_bits, "CNAV_OMEGA"), "CNAV_OMEGA_LSB"),
                             !.b_integrity_status_flag = page_bool(data_bits, "CNAV_INTEGRITY_FLAG"),
                             !.b_l2c_phasing_flag = page_bool(data_bits, "CNAV_L2_PHASING_FLAG")],
              !.b_flag_ephemeris_1 = TRUE]

\* decode_page, case 11
decode_case_11(D, data_bits) ==
    [D EXCEPT !.ephemeris_record =
                  [@ EXCEPT !.d_Toe2 = IntField(@, page_unsigned(data_bits, "CNAV_TOE2"), "CNAV_TOE2_LSB"),
                             !.d_OMEGA0 = DoubleField(@, page_signed(data_bits, "CNAV_OMEGA0"), "CNAV_OMEGA0_LSB"),
                             !.d_DELTA_OMEGA_DOT = DoubleField(@, page_signed(data_bits, "CNAV_DELTA_OMEGA_DOT"), "CNAV_DELTA_OMEGA_DOT_LSB"),
                             !.d_i_0 = DoubleField(@, page_signed(data_bits, "CNAV_I0"), "CNAV_I0_LSB"),
                             !.d_IDOT = DoubleField(@, page_signed(data_bits, "CNAV_I0_DOT"), "CNAV_I0_DOT_LSB"),
                             !.d_Cis = DoubleField(@, page_signed(data_bits, "CNAV_CIS"), "CNAV_CIS_LSB"),
                             !.d_Cic = DoubleField(@, page_signed(data_bits, "CNAV_CIC"), "CNAV_CIC_LSB"),
                             !.d_Crs = DoubleField(@, page_signed(data_bits, "CNAV_CRS"), "CNAV_CRS_LSB"),
                             !.d_Crc = DoubleField(@, page_signed(data_bits, "CNAV_CRC"), "CNAV_CRC_LSB"),
                             !.d_Cus = DoubleField(@, page_signed(data_bits, "CNAV_CUS"), "CNAV_CUS_LSB"),
                             !.d_Cuc = DoubleField(@, page_signed(data_bits, "CNAV_CUC"), "CNAV_CUC_LSB")],
              !.b_flag_ephemeris_2 = TRUE]

\* Variant: a clock page makes the two ephemeris halves stale.
decode_case_30_invalidates_ephemeris(D, data_bits) ==
    [D EXCEPT !.b_flag_iono_valid = TRUE,
              !.b_flag_ephemeris_1 = FALSE,
              !.b_flag_ephemeris_2 = FALSE]

\* decode_page, case 30
decode_case_30(D, data_bits) ==
    [D EXCEPT !.ephemeris_record =
                  [@ EXCEPT !.d_Toc = IntField(@, page_unsigned(data_bits, "CNAV_TOC"), "CNAV_TOC_LSB"),
                             !.d_URA0 = ToDouble(page_signed(data_bits, "CNAV_URA_NED0")),
                             !.d_URA1 = ToDouble(page_unsigned(data_bits, "CNAV_URA_NED1")),
                             !.d_URA2 = ToDouble(page_unsigned(data_bits, "CNAV_URA_NED2")),
                             !.d_A_f0 = DoubleField(@, page_signed(data_bits, "CNAV_AF0"), "CNAV_AF0_LSB"),
                             !.d_A_f1 = DoubleField(@, page_signed(data_bits, "CNAV_AF1"), "CNAV_AF1_LSB"),
                             !.d_A_f2 = DoubleField(@, page_signed(data_bits, "CNAV_AF2"), "CNAV_AF2_LSB"),
                             !.d_TGD = GroupDelay(@, page_signed(data_bits, "CNAV_TGD"), "CNAV_TGD_LSB"),
                             !.d_ISCL1 = GroupDelay(@, page_signed(data_bits, "CNAV_ISCL1"), "CNAV_ISCL1_LSB"),
                             !.d_ISCL2 = GroupDelay(@, page_signed(data_bits, "CNAV_ISCL2"), "CNAV_ISCL2_LSB"),
                             !.d_ISCL5I = GroupDelay(@, page_signed(data_bits, "CNAV_ISCL5I"), "CNAV_ISCL5I_LSB"),
                             !.d_ISCL5Q = GroupDelay(@, page_signed(data_bits, "CNAV_ISCL5Q"), "CNAV_ISCL5Q_LSB")],
              !.iono_record =
                  [@ EXCEPT !.d_alpha0 = DoubleField(@, page_signed(data_bits, "CNAV_ALPHA0"), "CNAV_ALPHA0_LSB"),
                             !.d_alpha1 = DoubleField(@, page_signed(data_bits, "CNAV_ALPHA1"), "CNAV_ALPHA1_LSB"),
                             !.d_alpha2 = DoubleField(@, page_signed(data_bits, "CNAV_ALPHA2"), "CNAV_ALPHA2_LSB"),
                             !.d_alpha3 = DoubleField(@, page_signed(data_bits, "CNAV_ALPHA3"), "CNAV_ALPHA3_LSB"),
                             !.d_beta0 = DoubleField(@, page_signed(data_bits, "CNAV_BETA0"), "CNAV_BETA0_LSB"),
                             !.d_beta1 = DoubleField(@, page_signed(data_bits, "CNAV_BETA1"), "CNAV_BETA1_LSB"),
                             !.d_beta2 = DoubleField(@, page_signed(data_bits, "CNAV_BETA2"), "CNAV_BETA2_LSB"),
                             !.d_beta3 = DoubleField(@, page_signed(data_bits, "CNAV_BETA3"), "CNAV_BETA3_LSB")],
              !.b_flag_iono_valid = TRUE]

\* Variant: Top is scaled where it stands, without being read again.
decode_case_33_top_in_place(D, data_bits) ==
    [D EXCEPT !.ephemeris_record.d_Top = @ * CNAV_LSB("CNAV_TOP1_LSB"),
              !.b_flag_utc_valid = TRUE]

\* decode_page, case 33
decode_case_33(D, data_bits) ==
    [D EXCEPT !.ephemeris_record =
                  [@ EXCEPT !.d_Top = IntField(@, page_unsigned(data_bits, "CNAV_TOP1"), "CNAV_TOP1_LSB"),
                             !.d_Toc = IntField(@, page_unsigned(data_bits, "CNAV_TOC"), "CNAV_TOC_LSB"),
                             !.d_A_f0 = DoubleField(@, page_signed(data_bits, "CNAV_AF0"), "CNAV_AF0_LSB"),
                             !.d_A_f1 = DoubleField(@, page_signed(data_bits, "CNAV_AF1"), "CNAV_AF1_LSB"),
                             !.d_A_f2 = DoubleField(@, page_signed(data_bits, "CNAV_AF2"), "CNAV_AF2_LSB")],
              !.utc_model_record =
                  [@ EXCEPT !.d_A0 = DoubleField(@, page_signed(data_bits, "CNAV_A0"), "CNAV_A0_LSB"),
                             !.d_A1 = DoubleField(@, page_signed(data_bits, "CNAV_A1"), "CNAV_A1_LSB"),
                             !.d_A2 = DoubleField(@, page_signed(data_bits, "CNAV_A2"), "CNAV_A2_LSB"),
                             !.d_DeltaT_LS = IntField(@, page_signed(data_bits, "CNAV_DELTA_TLS"), "CNAV_DELTA_TLS_LSB"),
                             !.d_t_OT = IntField(@, page_signed(data_bits, "CNAV_TOT"), "CNAV_TOT_LSB"),
                             !.i_WN_T = IntField(@, page_signed(data_bits, "CNAV_WN_OT"), "CNAV_WN_OT_LSB"),
                             !.i_WN_LSF = IntField(@, page_signed(data_bits, "CNAV_WN_LSF"), "CNAV_WN_LSF_LSB"),
                             !.i_DN = IntField(@, page_signed(data_bits, "CNAV_DN"), "CNAV_DN_LSB"),
                             !.d_DeltaT_LSF = IntField(@, page_signed(data_bits, "CNAV_DELTA_TLSF"), "CNAV_DELTA_TLSF_LSB")],
              !.b_flag_utc_valid = TRUE]

\* Variant: a page of another type is taken for the first half of an ephemeris.
decode_default_as_10(D, data_bits) == [D EXCEPT !.b_flag_ephemeris_1 = TRUE]

\* decode_page, default
decode_default(D, data_bits) == D

\* Gps_CNAV_Navigation_Message::decode_page
decode_page(D, data_bits) ==
    LET D1 == decode_common(D, data_bits)
        page_type == page_unsigned(data_bits, "CNAV_MSG_TYPE")
    IN  CASE page_type = 10 -> decode_case_10(D1, data_bits)
          [] page_type = 11 -> decode_case_11(D1, data_bits)
          [] page_type = 30 -> decode_case_30(D1, data_bits)
          [] page_type = 33 -> decode_case_33(D1, data_bits)
          [] OTHER -> decode_default(D1, data_bits)

\* Gps_CNAV_Ephemeris as constructed.
NewEphemeris ==
    [i_satellite_PRN |-> 0,
     d_TOW |-> 0,
     b_alert_flag |-> FALSE,
     i_GPS_week |-> 0,
     i_signal_health |-> 0,
     d_Top |-> 0,
     d_URA0 |-> DZero,
     d_Toe1 |-> 0,
     d_DELTA_A |-> DZero,
     d_A_DOT |-> DZero,
     d_Delta_n |-> DZero,
     d_DELTA_DOT_N |-> DZero,
     d_M_0 |-> DZero,
     d_e_eccentricity |-> DZero,
     d_OMEGA |-> DZero,
     b_integrity_status_flag |-> FALSE,
     b_l2c_phasing_flag |-> FALSE,
     d_Toe2 |-> 0,
     d_OMEGA0 |-> DZero,
     d_DELTA_OMEGA_DOT |-> DZero,
     d_i_0 |-> DZero,
     d_IDOT |-> DZero,
     d_Cis |-> DZero,
     d_Cic |-> DZero,
     d_Crs |-> DZero,
     d_Crc |-> DZero,
     d_Cus |-> DZero,
     d_Cuc |-> DZero,
     d_Toc |-> 0,
     d_URA1 |-> DZero,
     d_URA2 |-> DZero,
     d_A_f0 |-> DZero,
     d_A_f1 |-> DZero,
     d_A_f2 |-> DZero,
     d_TGD |-> DZero,
     d_ISCL1 |-> DZero,
     d_ISCL2 |-> DZero,
     d_ISCL5I |-> DZero,
     d_ISCL5Q |-> DZero]

\* Gps_CNAV_Iono as constructed.
NewIono ==
    [d_alpha0 |-> DZero,
     d_alpha1 |-> DZero,
     d_alpha2 |-> DZero,
     d_alpha3 |-> DZero,
     d_beta0 |-> DZero,
     d_beta1 |-> DZero,
     d_beta2 |-> DZero,
     d_beta3 |-> DZero]

\* Gps_CNAV_Utc_Model as constructed.
NewUtcModel ==
    [d_A0 |-> DZero,
     d_A1 |-> DZero,
     d_A2 |-> DZero,
     d_DeltaT_LS |-> 0,
     d_t_OT |-> 0,
     i_WN_T |-> 0,
     i_WN_LSF |-> 0,
     i_DN |-> 0,
     d_DeltaT_LSF |-> 0,
     valid |-> FALSE]

(***************************************************************************)
(* The pages handed to decode_page.                                        *)
(***************************************************************************)
\* Bit string "1000000000000", -4096 in two's complement.
NotAvailable == 0 - 2^12

GroupDelays(tgd, l1, l2, l5i, l5q) ==
    [CNAV_TGD |-> tgd, CNAV_ISCL1 |-> l1, CNAV_ISCL2 |-> l2,
     CNAV_ISCL5I |-> l5i, CNAV_ISCL5Q |-> l5q]

GroupDelayVectors ==
    {GroupDelays(NotAvailable + 1, 2^12 - 1, 0 - 1, 0, 7),
     GroupDelays(NotAvailable, 5, NotAvailable, 0 - 6, NotAvailable),
     GroupDelays(0 - 9, NotAvailable, 8, NotAvailable, 3)}

Headers == {[prn |-> 1, tow |-> 100, alert |-> 0],
            [prn |-> 2, tow |-> 70000, alert |-> 0 - 1]}

ToeRaws == {4, 2000}

UnsignedDescriptors ==
    {"CNAV_PRN", "CNAV_TOW", "CNAV_MSG_TYPE", "CNAV_WN", "CNAV_HEALTH", "CNAV_TOP1",
     "CNAV_TOE1", "CNAV_E_ECCENTRICITY", "CNAV_TOE2", "CNAV_TOC", "CNAV_URA_NED1",
     "CNAV_URA_NED2"}

\* The page of the given type, header, Toe and group delays; every other
\* field carries a number that tells the page's type.
MkPage(type, hdr, toe, gd) ==
    [F \in CnavDescriptors |->
        CASE F = "CNAV_PRN" -> ToPattern(hdr.prn, F)
          [] F = "CNAV_TOW" -> ToPattern(hdr.tow, F)
          [] F = "CNAV_ALERT_FLAG" -> hdr.alert
          [] F = "CNAV_MSG_TYPE" -> ToPattern(type, F)
          [] F \in {"CNAV_TOE1", "CNAV_TOE2"} -> ToPattern(toe, F)
          [] F \in DOMAIN gd -> gd[F]
          [] F = "CNAV_INTEGRITY_FLAG" -> 0 - 1
          [] F = "CNAV_L2_PHASING_FLAG" -> 0
          [] F = "CNAV_E_ECCENTRICITY" -> type + 1
          [] F \in UnsignedDescriptors -> ToPattern(type % 2^CNAV_WIDTH(F), F)
          [] OTHER -> 0 - ((type % 7) + 1)]

\* The header of a page of another satellite.
OtherSatellite == [prn |-> 3, tow |-> 300, alert |-> 0]

\* The header of the pages whose type decode_page knows.
Header1 == CHOOSE hdr \in Headers : hdr.prn = 1

\* The group delays of the pages that are not of type 30.
GroupDelays0 == CHOOSE gd \in GroupDelayVectors : gd.CNAV_ISCL5Q = 7

Pages ==
    {MkPage(type, Header1, toe, GroupDelays0) : type \in {10, 11}, toe \in ToeRaws}
    \cup {MkPage(11, OtherSatellite, toe, GroupDelays0) : toe \in ToeRaws}
    \cup {MkPage(30, Header1, 0, gd) : gd \in GroupDelayVectors}
    \cup {MkPage(33, Header1, 0, GroupDelays0)}
    \cup {MkPage(12, hdr, 0, GroupDelays0) : hdr \in Headers}

\* No page decoded yet.
NoHeader == [prn |-> 0, tow |-> 0, alert |-> 0]

\* The header the page was made with.
HeaderOf(data_bits) ==
    CHOOSE hdr \in Headers \cup {OtherSatellite} :
        /\ data_bits["CNAV_PRN"] = ToPattern(hdr.prn, "CNAV_PRN")
        /\ data_bits["CNAV_TOW"] = ToPattern(hdr.tow, "CNAV_TOW")
        /\ data_bits["CNAV_ALERT_FLAG"] = hdr.alert

(***************************************************************************)
(* The decoder's methods as steps of its one caller.                       *)
(***************************************************************************)
\* No page of the type decoded since the last reset or publication.
NoToe == 0 - 1

SetDecoder(D) ==
    /\ b_flag_ephemeris_1' = D.b_flag_ephemeris_1
    /\ b_flag_ephemeris_2' = D.b_flag_ephemeris_2
    /\ b_flag_iono_valid' = D.b_flag_iono_valid
    /\ b_flag_utc_valid' = D.b_flag_utc_valid
    /\ d_TOW' = D.d_TOW
    /\ ephemeris_record' = D.ephemeris_record
    /\ iono_record' = D.iono_record
    /\ utc_model_record' = D.utc_model_record

\* What a call leaves behind: its name, the type of the page it was given,
\* and what it returned.
Called(name, type, r) ==
    /\ cnavOp' = [name |-> name, type |-> type]
    /\ ret' = r
    /\ UNCHANGED <<vars, readerVars>>

\* The members reset() writes besides the flags and d_TOW.
SatInfoReset ==
    [d_satpos_X |-> DZero, d_satpos_Y |-> DZero, d_satpos_Z |-> DZero,
     i_channel_ID |-> 0, i_satellite_PRN |-> 0,
     d_satvel_X |-> DZero, d_satvel_Y |-> DZero, d_satvel_Z |-> DZero]

\* Gps_CNAV_Navigation_Message::reset
reset ==
    /\ b_flag_ephemeris_1' = FALSE
    /\ b_flag_ephemeris_2' = FALSE
    /\ b_flag_iono_valid' = FALSE
    /\ b_flag_utc_valid' = FALSE
    /\ sat_info' = SatInfoReset
    /\ d_TOW' = 0
    /\ UNCHANGED <<ephemeris_record, iono_record, utc_model_record>>
    /\ toe10' = NoToe /\ toe11' = NoToe /\ refused' = FALSE
    /\ UNCHANGED lastHeader
    /\ Called("reset", 0, NULL)

\* Gps_CNAV_Navigation_Message::Gps_CNAV_Navigation_Message
CnavInit ==
    /\ b_flag_ephemeris_1 = FALSE
    /\ b_flag_ephemeris_2 = FALSE
    /\ b_flag_iono_valid = FALSE
    /\ b_flag_utc_valid = FALSE
    /\ sat_info = SatInfoReset
    /\ d_TOW = 0
    /\ ephemeris_record = NewEphemeris
    /\ iono_record = NewIono
    /\ utc_model_record = NewUtcModel
    /\ cnavOp = [name |-> "Gps_CNAV_Navigation_Message", type |-> 0]
    /\ ret = NULL
    /\ toe10 = NoToe /\ toe11 = NoToe /\ refused = FALSE
    /\ lastHeader = NoHeader
    /\ NoChannelFsm /\ NoReader

\* A call of decode_page with one of the pages.
DecodePage ==
    \E data_bits \in Pages :
        LET type == page_unsigned(data_bits, "CNAV_MSG_TYPE")
        IN  /\ SetDecoder(decode_page(Decoder, data_bits))
            /\ UNCHANGED sat_info
            /\ toe10' = IF type = 10 THEN page_unsigned(data_bits, "CNAV_TOE1") ELSE toe10
            /\ toe11' = IF type = 11 THEN page_unsigned(data_bits, "CNAV_TOE2") ELSE toe11
            /\ UNCHANGED refused
            /\ lastHeader' = HeaderOf(data_bits)
            /\ Called("decode_page", type, NULL)

\* Variant: both halves suffice, whatever their Toe.
have_new_ephemeris_any_toe(D) ==
    IF D.b_flag_ephemeris_1 = TRUE /\ D.b_flag_ephemeris_2 = TRUE
    THEN [D |-> [D EXCEPT !.b_flag_ephemeris_1 = FALSE, !.b_flag_ephemeris_2 = FALSE],
          ret |-> TRUE]
    ELSE [D |-> D, ret |-> FALSE]

\* Variant: a pair whose Toe differ is dropped.
have_new_ephemeris_drops_mismatch(D) ==
    IF D.b_flag_ephemeris_1 = TRUE /\ D.b_flag_ephemeris_2 = TRUE
    THEN [D |-> [D EXCEPT !.b_flag_ephemeris_1 = FALSE, !.b_flag_ephemeris_2 = FALSE],
          ret |-> D.ephemeris_record.d_Toe1 = D.ephemeris_record.d_Toe2]
    ELSE [D |-> D, ret |-> FALSE]

\* Variant: equal Toe suffice, whatever the flags.
have_new_ephemeris_toe_only(D) ==
    IF D.ephemeris_record.d_Toe1 = D.ephemeris_record.d_Toe2
    THEN [D |-> [D EXCEPT !.b_flag_ephemeris_1 = FALSE, !.b_flag_ephemeris_2 = FALSE],
          ret |-> TRUE]
    ELSE [D |-> D, ret |-> FALSE]

\* Gps_CNAV_Navigation_Message::have_new_ephemeris
have_new_ephemeris(D) ==
    IF /\ D.b_flag_ephemeris_1 = TRUE /\ D.b_flag_ephemeris_2 = TRUE
       /\ D.ephemeris_record.d_Toe1 = D.ephemeris_record.d_Toe2
    THEN [D |-> [D EXCEPT !.b_flag_ephemeris_1 = FALSE, !.b_flag_ephemeris_2 = FALSE],
          ret |-> TRUE]
    ELSE [D |-> D, ret |-> FALSE]

\* Variant: the read leaves the flag set.
have_new_iono_keeps_flag(D) == [D |-> D, ret |-> D.b_flag_iono_valid = TRUE]

\* Gps_CNAV_Navigation_Message::have_new_iono
have_new_iono(D) ==
    IF D.b_flag_iono_valid = TRUE
    THEN [D |-> [D EXCEPT !.b_flag_iono_valid = FALSE], ret |-> TRUE]
    ELSE [D |-> D, ret |-> FALSE]

\* Gps_CNAV_Navigation_Message::have_new_utc_model
have_new_utc_model(D) ==
    IF D.b_flag_utc_valid = TRUE
    THEN [D |-> [D EXCEPT !.b_flag_utc_valid = FALSE], ret |-> TRUE]
    ELSE [D |-> D, ret |-> FALSE]

\* Gps_CNAV_Navigation_Message::get_ephemeris
get_ephemeris(D) == [D |-> D, ret |-> D.ephemeris_record]

\* Variant: reading the record consumes it.
get_iono_consumes(D) ==
    [D |-> [D EXCEPT !.b_flag_iono_valid = FALSE], ret |-> D.iono_record]

\* Gps_CNAV_Navigation_Message::get_iono
get_iono(D) == [D |-> D, ret |-> D.iono_record]

\* Variant: the getter hands out the record as it is.
get_utc_model_as_stored(D) == [D |-> D, ret |-> D.utc_model_record]

\* Gps_CNAV_Navigation_Message::get_utc_model
get_utc_model(D) ==
    LET D1 == [D EXCEPT !.utc_model_record.valid = TRUE]
    IN  [D |-> D1, ret |-> D1.utc_model_record]

\* A call of have_new_ephemeris.
HaveNewEphemeris ==
    LET r == have_new_ephemeris(Decoder)
    IN  /\ SetDecoder(r.D)
        /\ UNCHANGED sat_info
        /\ toe10' = IF r.ret THEN NoToe ELSE toe10
        /\ toe11' = IF r.ret THEN NoToe ELSE toe11
        /\ refused' = IF r.ret THEN FALSE
                      ELSE refused \/ (toe10 # NoToe /\ toe11 # NoToe)
        /\ UNCHANGED lastHeader
        /\ Called("have_new_ephemeris", 0, r.ret)

\* A call of a method that leaves the two ephemeris halves as they are.
Call1(name, r) ==
    /\ SetDecoder(r.D)
    /\ UNCHANGED <<sat_info, toe10, toe11, refused, lastHeader>>
    /\ Called(name, 0, r.ret)

HaveNewIono == Call1("have_new_iono", have_new_iono(Decoder))

HaveNewUtcModel == Call1("have_new_utc_model", have_new_utc_model(Decoder))

GetEphemeris == Call1("get_ephemeris", get_ephemeris(Decoder))

GetIono == Call1("get_iono", get_iono(Decoder))

GetUtcModel == Call1("get_utc_model", get_utc_model(Decoder))

CnavNext ==
    \/ DecodePage
    \/ HaveNewEphemeris
    \/ HaveNewIono
    \/ HaveNewUtcModel
    \/ GetEphemeris
    \/ GetIono
    \/ GetUtcModel
    \/ reset

SpecCnav == CnavInit /\ [][CnavNext]_cnavVars

(***************************************************************************)
(* The bit field reader: read_navigation_bool, read_navigation_unsigned    *)
(* and read_navigation_signed.  A std::bitset is indexed from its least    *)
(* significant bit, index 0.  A 64-bit register is a sequence of 64 bits,  *)
(* most significant first.                                                 *)
(***************************************************************************)
\* Width of uint64_t and int64_t.
RegisterBits == 64

\* Number of bits of a block in the reader's runs (GPS_CNAV_DATA_PAGE_BITS
\* of them in a page).
ReaderBits == 6

Bit == {0, 1}

\* A slice (first, second) = (start bit, length); a descriptor is one slice or two.
Slices == {sl \in (1..ReaderBits) \X (1..ReaderBits) : sl[1] + sl[2] - 1 <= ReaderBits}
Descriptors == {<<sl>> : sl \in Slices} \cup {<<a, b>> : a \in Slices, b \in Slices}

Zero64 == [i \in 1..RegisterBits |-> 0]
Ones64 == [i \in 1..RegisterBits |-> 1]

\* value <<= 1
Shl(r) == Append(Tail(r), 0)

\* value += 1 (modulo 2^64)
RECURSIVE Inc(_)
Inc(r) ==
    IF r = <<>> THEN <<>>
    ELSE IF r[Len(r)] = 0 THEN [r EXCEPT ![Len(r)] = 1]
    ELSE Append(Inc(SubSeq(r, 1, Len(r) - 1)), 0)

\* value *= 2 on int64_t.  The product overflows when the two top bits differ;
\* read_navigation_signed never gets there for a field of at most 64 bits.
Mul2(r) == IF r[1] = r[2] THEN Shl(r) ELSE "signed overflow"

\* value &= 0xFFFFFFFFFFFFFFFE
ClearLow(r) == [r EXCEPT ![RegisterBits] = 0]

\* bits[GPS_CNAV_DATA_PAGE_BITS - first - j]
BitAt(b, first, j) == b[ReaderBits - first - j]

\* The inner loop of read_navigation_unsigned from offset j of one slice.
RECURSIVE UnsignedSlice(_, _, _, _)
UnsignedSlice(value, b, sl, j) ==
    IF j >= sl[2] THEN value
    ELSE LET shifted == Shl(value)
         IN  UnsignedSlice(IF BitAt(b, sl[1], j) = 1 THEN Inc(shifted) ELSE shifted,
                           b, sl, j + 1)

\* The outer loop of read_navigation_unsigned from slice i.
RECURSIVE UnsignedFrom(_, _, _, _)
UnsignedFrom(value, b, par, i) ==
    IF i > Len(par) THEN value
    ELSE UnsignedFrom(UnsignedSlice(value, b, par[i], 0), b, par, i + 1)

\* Gps_CNAV_Navigation_Message::read_navigation_unsigned
read_navigation_unsigned(b, par) == UnsignedFrom(Zero64, b, par, 1)

\* The inner loop of read_navigation_signed from offset j of one slice.
RECURSIVE SignedSlice(_, _, _, _)
SignedSlice(value, b, sl, j) ==
    IF j >= sl[2] THEN value
    ELSE LET shifted == ClearLow(Mul2(value))
         IN  SignedSlice(IF BitAt(b, sl[1], j) = 1 THEN Inc(shifted) ELSE shifted,
                         b, sl, j + 1)

\* The outer loop of read_navigation_signed from slice i.
RECURSIVE SignedFrom(_, _, _, _)
SignedFrom(value, b, par, i) ==
    IF i > Len(par) THEN value
    ELSE SignedFrom(SignedSlice(value, b, par[i], 0), b, par, i + 1)

\* Variant: the register starts at 0 whatever the first bit is.
read_navigation_signed_no_extension(b, par) == SignedFrom(Zero64, b, par, 1)

\* Gps_CNAV_Navigation_Message::read_navigation_signed
read_navigation_signed(b, par) ==
    SignedFrom(IF BitAt(b, par[1][1], 0) = 1 THEN Ones64 ELSE Zero64, b, par, 1)

\* Gps_CNAV_Navigation_Message::read_navigation_bool
read_navigation_bool(b, par) == BitAt(b, par[1][1], 0) = 1

\* A caller holds a bit block and a descriptor of the catalogue.
ReaderInit ==
    /\ bits \in [0..(ReaderBits - 1) -> Bit]
    /\ parameter \in Descriptors
    /\ uvalue = NULL /\ svalue = NULL /\ bvalue = NULL
    /\ rpc = "call"
    /\ NoChannelFsm /\ NoDecoder

\* The three reads of the block with the descriptor.
ReadField ==
    /\ rpc = "call"
    /\ uvalue' = read_navigation_unsigned(bits, parameter)
    /\ svalue' = read_navigation_signed(bits, parameter)
    /\ bvalue' = read_navigation_bool(bits, parameter)
    /\ rpc' = "done"
    /\ UNCHANGED <<bits, parameter>>
    /\ UNCHANGED <<vars, cnavVars>>

ReaderNext == ReadField

SpecReader == ReaderInit /\ [][ReaderNext]_readerVars

\* The block as the specification numbers it: B[1] is the most significant bit.
Block == [i \in 1..ReaderBits |-> bits[ReaderBits - i]]

\* The bits of the slices of a descriptor, concatenated left to right.
RECURSIVE FieldBits(_, _)
FieldBits(B, par) ==
    IF par = <<>> THEN <<>>
    ELSE SubSeq(B, par[1][1], par[1][1] + par[1][2] - 1) \o FieldBits(B, Tail(par))

\* The natural number a bit sequence spells, most significant bit first.
RECURSIVE BitsToNat(_)
BitsToNat(bs) ==
    IF bs = <<>> THEN 0 ELSE 2 * BitsToNat(SubSeq(bs, 1, Len(bs) - 1)) + bs[Len(bs)]

\* The integer a register holds in two's complement.
Complement(r) == [i \in 1..Len(r) |-> 1 - r[i]]
RegToInt(r) == IF r[1] = 1 THEN 0 - (BitsToNat(Complement(r)) + 1) ELSE BitsToNat(r)

\* A bit sequence extended on the left to register width with copies of bit x.
Extend(bs, x) == [i \in 1..(RegisterBits - Len(bs)) |-> x] \o bs

\* C17: read_navigation_unsigned returns the slices' bits concatenated left to
\* right, most significant first, as an unsigned integer; read_navigation_signed
\* returns the same n bits in two's complement, every bit above them a copy of
\* the first one: the unsigned value when bit B[s1] is 0, and that minus 2^n
\* when it is 1.
C17_ReaderValues ==
    rpc = "done" =>
        LET field == FieldBits(Block, parameter)
            n == Len(field)
            u == BitsToNat(field)
        IN  /\ uvalue = Extend(field, 0)
            /\ BitsToNat(uvalue) = u
            /\ svalue = Extend(field, Block[parameter[1][1]])
            /\ RegToInt(svalue) = IF Block[parameter[1][1]] = 1 THEN u - 2^n ELSE u

\* C17 witness: a two-slice field whose first bit is 1 and whose bits are not
\* all 1 has been read as a negative number.
C17_Witness ==
    /\ rpc = "done" /\ Len(parameter) = 2
    /\ Block[parameter[1][1]] = 1
    /\ RegToInt(svalue) < -1
    /\ BitsToNat(uvalue) > 2

(***************************************************************************)
(* The CNAV decoder's contracts, checked under SpecCnav.                   *)
(***************************************************************************)
\* The step is a call of the named method.
IsCall(name) == cnavOp'.name = name

BothHalves == b_flag_ephemeris_1 = TRUE /\ b_flag_ephemeris_2 = TRUE

KnownTypes == {10, 11, 30, 33}

C11_Step ==
    IsCall("have_new_ephemeris") =>
        /\ ret' = (BothHalves /\ ephemeris_record.d_Toe1 = ephemeris_record.d_Toe2)
        /\ ret' => (b_flag_ephemeris_1' = FALSE /\ b_flag_ephemeris_2' = FALSE)
        /\ (toe10 # NoToe /\ toe10 = toe11) => ret'
        /\ (cnavOp.name = "have_new_ephemeris" /\ ret = TRUE) => ~ret'

\* C11: have_new_ephemeris() returns true exactly when both ephemeris flags
\* are set and the stored Toe1 equals the stored Toe2, and then clears both
\* flags; so after a type-10 and a type-11 page with the same raw Toe a call
\* returns true and the call right after it returns false.
C11_EphemerisPublication == [][C11_Step]_cnavVars

C11_Witness ==
    /\ cnavOp.name = "have_new_ephemeris" /\ ret = TRUE
    /\ b_flag_ephemeris_1 = FALSE /\ b_flag_ephemeris_2 = FALSE
    /\ ephemeris_record.d_Toe1 = ephemeris_record.d_Toe2
    /\ ephemeris_record.d_Toe1 = 2000 * CNAV_LSB("CNAV_TOE1_LSB")

Mismatch == toe10 # NoToe /\ toe11 # NoToe /\ toe10 # toe11

C12_State ==
    (cnavOp.name = "have_new_ephemeris" /\ Mismatch) => (ret = FALSE /\ BothHalves)

C12_Step ==
    IsCall("have_new_ephemeris") =>
        /\ Mismatch => (ret' = FALSE /\ UNCHANGED <<b_flag_ephemeris_1, b_flag_ephemeris_2>>)
        /\ (refused /\ toe10 = toe11) => ret' = TRUE

\* C12: while both halves have been seen with different Toe, every
\* have_new_ephemeris() call returns false and leaves both ephemeris flags
\* set; the first call after a later page has made the two Toe equal
\* publishes the record.
C12_MismatchKeepsPending == []C12_State /\ [][C12_Step]_cnavVars

C12_Witness ==
    /\ cnavOp.name = "have_new_ephemeris" /\ ret = FALSE
    /\ refused /\ Mismatch /\ BothHalves
    /\ ephemeris_record.d_Toe1 # ephemeris_record.d_Toe2

C13_Step ==
    /\ IsCall("have_new_iono") =>
           (ret' = (b_flag_iono_valid = TRUE) /\ b_flag_iono_valid' = FALSE)
    /\ IsCall("have_new_utc_model") =>
           (ret' = (b_flag_utc_valid = TRUE) /\ b_flag_utc_valid' = FALSE)
    /\ (b_flag_iono_valid = FALSE /\ b_flag_iono_valid' = TRUE) =>
           (IsCall("decode_page") /\ cnavOp'.type = 30)
    /\ (b_flag_utc_valid = FALSE /\ b_flag_utc_valid' = TRUE) =>
           (IsCall("decode_page") /\ cnavOp'.type = 33)
    /\ (IsCall("decode_page") /\ cnavOp'.type = 30) => b_flag_iono_valid' = TRUE
    /\ (IsCall("decode_page") /\ cnavOp'.type = 33) => b_flag_utc_valid' = TRUE

\* C13: have_new_iono() and have_new_utc_model() return true iff their flag
\* is set and leave it clear, and only a decode of a type-30 (type-33) page
\* sets it again: after any number of such pages one call returns true and
\* the calls after it return false until another page of the type arrives.
C13_ConsumeOnRead == [][C13_Step]_cnavVars

C13_Witness ==
    /\ cnavOp.name = "have_new_utc_model" /\ ret = TRUE
    /\ b_flag_utc_valid = FALSE
    /\ utc_model_record.d_t_OT # 0

HeaderFields == {"i_satellite_PRN", "d_TOW", "b_alert_flag"}

UnknownPage == IsCall("decode_page") /\ cnavOp'.type \notin KnownTypes

\* C14 as the specification states it: decode_page on a page whose type is
\* none of 10, 11, 30, 33 leaves the decoder as it was, PRN, TOW and alert
\* flag included.
C14_UnknownTypeChangesNothing ==
    [][UnknownPage =>
          UNCHANGED <<b_flag_ephemeris_1, b_flag_ephemeris_2, b_flag_iono_valid,
                      b_flag_utc_valid, d_TOW, ephemeris_record, iono_record,
                      utc_model_record>>]_cnavVars

C14_Step ==
    UnknownPage =>
        /\ UNCHANGED <<b_flag_ephemeris_1, b_flag_ephemeris_2, b_flag_iono_valid,
                       b_flag_utc_valid, iono_record, utc_model_record>>
        /\ \A f \in (DOMAIN ephemeris_record) \ HeaderFields :
               ephemeris_record'[f] = ephemeris_record[f]
        /\ \E hdr \in Headers :
               /\ ephemeris_record'.i_satellite_PRN = hdr.prn
               /\ d_TOW' = hdr.tow * CNAV_LSB("CNAV_TOW_LSB")
               /\ ephemeris_record'.d_TOW = d_TOW'
               /\ ephemeris_record'.b_alert_flag = (hdr.alert # 0)

\* C14: decode_page on a page whose type is none of 10, 11, 30, 33 changes
\* no freshness flag and no record field other than the ephemeris record's
\* PRN, TOW and alert flag and the decoder's TOW, which take the page's
\* values.
C14_UnknownTypeKeepsAllButHeader == [][C14_Step]_cnavVars

C14_Witness ==
    /\ cnavOp.name = "decode_page" /\ cnavOp.type \notin KnownTypes
    /\ ephemeris_record.i_satellite_PRN = 2 /\ ephemeris_record.b_alert_flag = TRUE
    /\ BothHalves /\ b_flag_iono_valid = TRUE
    /\ ephemeris_record.d_Toe1 # 0 /\ iono_record.d_alpha0 # DZero

Flags == <<b_flag_ephemeris_1, b_flag_ephemeris_2, b_flag_iono_valid, b_flag_utc_valid>>

Published(name) == IsCall(name) /\ ret' = TRUE

C15_Step ==
    /\ (b_flag_ephemeris_1 = TRUE /\ b_flag_ephemeris_1' = FALSE) =>
           (IsCall("reset") \/ Published("have_new_ephemeris"))
    /\ (b_flag_ephemeris_2 = TRUE /\ b_flag_ephemeris_2' = FALSE) =>
           (IsCall("reset") \/ Published("have_new_ephemeris"))
    /\ (b_flag_iono_valid = TRUE /\ b_flag_iono_valid' = FALSE) =>
           (IsCall("reset") \/ Published("have_new_iono"))
    /\ (b_flag_utc_valid = TRUE /\ b_flag_utc_valid' = FALSE) =>
           (IsCall("reset") \/ Published("have_new_utc_model"))

\* C15: a set freshness flag becomes clear only in a reset or in a have_new_*
\* call of its own record that returns true; no getter, no have_new_ephemeris()
\* call that returns false and no decode_page clears a set flag.
C15_FlagsClearedOnlyByResetOrPublish == [][C15_Step]_cnavVars

C15_Witness ==
    /\ cnavOp.name = "have_new_ephemeris" /\ ret = FALSE
    /\ BothHalves /\ b_flag_iono_valid = TRUE /\ b_flag_utc_valid = TRUE

\* The record field each group delay descriptor is stored in.
GroupDelayField ==
    [CNAV_TGD |-> "d_TGD", CNAV_ISCL1 |-> "d_ISCL1", CNAV_ISCL2 |-> "d_ISCL2",
     CNAV_ISCL5I |-> "d_ISCL5I", CNAV_ISCL5Q |-> "d_ISCL5Q"]

GroupDelayLSB ==
    [CNAV_TGD |-> "CNAV_TGD_LSB", CNAV_ISCL1 |-> "CNAV_ISCL1_LSB",
     CNAV_ISCL2 |-> "CNAV_ISCL2_LSB", CNAV_ISCL5I |-> "CNAV_ISCL5I_LSB",
     CNAV_ISCL5Q |-> "CNAV_ISCL5Q_LSB"]

\* What the claim gives for group delay F when its 13 bits spell raw.
GroupDelayValue(F, raw) ==
    IF raw = NotAvailable THEN DZero
    ELSE DMul(ToDouble(raw), CNAV_LSB(GroupDelayLSB[F]))

Type30Pages == {p \in Pages : p["CNAV_MSG_TYPE"] = 30}

\* C16: after decode_page of a type-30 page each of TGD, ISCL1, ISCL2,
\* ISCL5I, ISCL5Q whose 13 bits are 1000000000000 is 0.0 in the ephemeris
\* record, whatever the other four are, and every other one is the signed
\* raw value times 2^-35.
C16_GroupDelaySentinel ==
    /\ \A p \in Type30Pages :
           LET decoded == decode_page(Decoder, p).ephemeris_record
           IN  \A F \in DOMAIN GroupDelayField :
                   decoded[GroupDelayField[F]] = GroupDelayValue(F, p[F])
    /\ (cnavOp.name = "decode_page" /\ cnavOp.type = 30) =>
           \E gd \in GroupDelayVectors : \A F \in DOMAIN GroupDelayField :
               ephemeris_record[GroupDelayField[F]] = GroupDelayValue(F, gd[F])

C16_Witness ==
    /\ cnavOp.name = "decode_page" /\ cnavOp.type = 30
    /\ ephemeris_record.d_TGD = DZero /\ ephemeris_record.d_ISCL2 = DZero
    /\ ephemeris_record.d_ISCL5Q = DZero
    /\ ephemeris_record.d_ISCL1 = [m |-> 5, e |-> 0 - 35, pi |-> 0]
    /\ ephemeris_record.d_ISCL5I = [m |-> 0 - 3, e |-> 0 - 34, pi |-> 0]

\* C18: decoding a page a second time changes nothing: from every state the
\* decoder reaches, and for every page, two decodes in a row leave the
\* records, the flags and the TOW as one decode does.
C18_DecodeIdempotent ==
    \A p \in Pages :
        LET once == decode_page(Decoder, p)
        IN  decode_page(once, p) = once

C18_Witness ==
    /\ cnavOp.name = "decode_page" /\ cnavOp.type = 33
    /\ \E p \in Pages : p["CNAV_MSG_TYPE"] = ToPattern(33, "CNAV_MSG_TYPE")
                        /\ decode_page(Decoder, p) = Decoder
    /\ ephemeris_record.d_Top = 33 * CNAV_LSB("CNAV_TOP1_LSB")
    /\ ephemeris_record.d_Toe1 # 0

Getters == {"get_ephemeris", "get_iono", "get_utc_model"}

C19_State == cnavOp.name = "get_utc_model" => ret.valid = TRUE

C19_Step ==
    (\E g \in Getters : IsCall(g)) =>
        /\ UNCHANGED Flags
        /\ have_new_ephemeris(Decoder').ret = have_new_ephemeris(Decoder).ret
        /\ have_new_iono(Decoder').ret = have_new_iono(Decoder).ret
        /\ have_new_utc_model(Decoder').ret = have_new_utc_model(Decoder).ret

\* C19: get_utc_model() returns a record whose valid field is true, and no
\* getter changes a freshness flag or what the next have_new_* call returns.
C19_GettersAreSnapshots == []C19_State /\ [][C19_Step]_cnavVars

C19_Witness ==
    /\ cnavOp.name = "get_utc_model" /\ ret.valid = TRUE
    /\ ret.d_t_OT # 0
    /\ BothHalves /\ b_flag_iono_valid = TRUE /\ b_flag_utc_valid = TRUE

C20_Step ==
    IsCall("decode_page") =>
        /\ cnavOp'.type = 10 =>
               /\ b_flag_ephemeris_1' = TRUE
               /\ UNCHANGED <<b_flag_ephemeris_2, b_flag_iono_valid, b_flag_utc_valid>>
        /\ cnavOp'.type = 11 =>
               /\ b_flag_ephemeris_2' = TRUE
               /\ UNCHANGED <<b_flag_ephemeris_1, b_flag_iono_valid, b_flag_utc_valid>>
        /\ cnavOp'.type = 30 =>
               /\ b_flag_iono_valid' = TRUE
               /\ UNCHANGED <<b_flag_ephemeris_1, b_flag_ephemeris_2, b_flag_utc_valid>>
        /\ cnavOp'.type = 33 =>
               /\ b_flag_utc_valid' = TRUE
               /\ UNCHANGED <<b_flag_ephemeris_1, b_flag_ephemeris_2, b_flag_iono_valid>>

\* C20: decode_page sets the freshness flag of the page's type and leaves
\* the other three as they were: 10 sets eph1, 11 eph2, 30 iono, 33 utc; the
\* clock pages 30 and 33 neither set nor clear an ephemeris flag.
C20_DecodeSetsOwnFlagOnly == [][C20_Step]_cnavVars

C20_Witness ==
    /\ cnavOp.name = "decode_page" /\ cnavOp.type = 30
    /\ b_flag_ephemeris_1 = TRUE /\ b_flag_ephemeris_2 = FALSE
    /\ b_flag_iono_valid = TRUE /\ b_flag_utc_valid = FALSE
    /\ ephemeris_record.d_Toc = 30 * CNAV_LSB("CNAV_TOC_LSB")

(***************************************************************************)
(* Order of the exit and entry actions, and the queue's history.           *)
(***************************************************************************)
\* The last operation was start_acquisition delivered in TRACKING.
Reacquire ==
    /\ IsEvent /\ prevState = "TRACKING"
    /\ lastOp.name = "start_acquisition"

\* C21: when start_acquisition is delivered in TRACKING with the queue and the
\* acquisition provider bound, the call returns in ACQUIRING having made
\* exactly two calls, in this order: the message (channel_, 2) is pushed on
\* the queue (exit of TRACKING), then reset() is called on the acquisition
\* provider (entry of ACQUIRING); the calls of one event are all made before
\* the next operation begins.
C21_ExitBeforeEntry ==
    (Reacquire /\ queue_ # NULL /\ acq_ # NULL) =>
        /\ state = "ACQUIRING" /\ fault = "none"
        /\ effects = <<Call("handle", queue_, <<channel_, 2>>),
                       Call("reset", acq_, <<>>)>>
        /\ queues[queue_] # <<>>
        /\ queues[queue_][Len(queues[queue_])] = <<channel_, 2>>

C21_Witness ==
    /\ Reacquire /\ state = "ACQUIRING"
    /\ Len(effects) = 2
    /\ effects[1].call = "handle" /\ effects[1].msg = <<7, 2>>
    /\ effects[2].call = "reset"
    /\ resetCalls = 2

\* Every message ever pushed went to the queue that is bound now.
OneQueue == queue_ # NULL /\ \A q \in Queues \ {queue_} : queues[q] = <<>>

\* The "tracking started" and "tracking stopped" messages on queue q, in the
\* order they were pushed.
TrackingMessages(q) == SelectSeq(queues[q], LAMBDA m : m[2] \in {1, 2})

\* C22: when every message was pushed on the one bound queue, its what = 1
\* and what = 2 messages alternate, the first being a 1, and the machine is
\* in TRACKING exactly when there is one more 1 than 2; otherwise there are
\* as many of the one as of the other.
C22_StartStopAlternate ==
    OneQueue =>
        LET tm == TrackingMessages(queue_)
            n1 == Len(SelectSeq(tm, LAMBDA m : m[2] = 1))
            n2 == Len(SelectSeq(tm, LAMBDA m : m[2] = 2))
        IN  /\ \A i \in 1..Len(tm) : tm[i][2] = IF i % 2 = 1 THEN 1 ELSE 2
            /\ state = "TRACKING" <=> n1 = n2 + 1
            /\ state # "TRACKING" <=> n1 = n2

C22_Witness ==
    /\ OneQueue /\ state = "TRACKING"
    /\ Len(TrackingMessages(queue_)) = 3
    /\ TrackingMessages(queue_)[2][2] = 2

(***************************************************************************)
(* reset, and the header of the published record.                          *)
(***************************************************************************)
C23_Step ==
    /\ IsCall("reset") =>
           /\ b_flag_ephemeris_1' = FALSE /\ b_flag_ephemeris_2' = FALSE
           /\ b_flag_iono_valid' = FALSE /\ b_flag_utc_valid' = FALSE
           /\ UNCHANGED <<ephemeris_record, iono_record, utc_model_record>>
    /\ (IsCall("have_new_ephemeris") /\ (toe10 = NoToe \/ toe11 = NoToe)) =>
           ret' = FALSE

\* C23: reset() clears the four freshness flags and changes no field of the
\* three records, Toe1 and Toe2 included; and have_new_ephemeris() returns
\* false as long as a type-10 page or a type-11 page is still missing since
\* the reset, whatever Toe1 and Toe2 the record holds.
C23_ResetKeepsRecords == [][C23_Step]_cnavVars

C23_Witness ==
    /\ cnavOp.name = "have_new_ephemeris" /\ ret = FALSE
    /\ d_TOW = 0 /\ ephemeris_record.d_TOW # 0
    /\ b_flag_ephemeris_1 = FALSE /\ b_flag_ephemeris_2 = FALSE
    /\ ephemeris_record.d_Toe1 = ephemeris_record.d_Toe2
    /\ ephemeris_record.d_Toe1 = 2000 * CNAV_LSB("CNAV_TOE1_LSB")

\* The record's PRN, TOW and alert flag are those of header hdr.
CarriesHeader(rec, hdr) ==
    /\ rec.i_satellite_PRN = hdr.prn
    /\ rec.d_TOW = hdr.tow * CNAV_LSB("CNAV_TOW_LSB")
    /\ rec.b_alert_flag = (hdr.alert # 0)

C24_State ==
    /\ CarriesHeader(ephemeris_record, lastHeader)
    /\ cnavOp.name = "get_ephemeris" => CarriesHeader(ret, lastHeader)

C24_Step ==
    (/\ IsCall("have_new_ephemeris")
     /\ cnavOp.name = "decode_page" /\ cnavOp.type = 11
     /\ lastHeader = OtherSatellite
     /\ toe10 # NoToe /\ toe10 = toe11) =>
        (ret' = TRUE /\ CarriesHeader(ephemeris_record', OtherSatellite))

\* C24: the ephemeris record's PRN, TOW and alert flag are always those of
\* the page decoded last, of whatever type, and so are those of every
\* snapshot get_ephemeris() returns; a type-11 page of another satellite
\* that completes a type-10 page with the same Toe makes
\* have_new_ephemeris() return true, the record carrying the other
\* satellite's PRN and TOW.
C24_HeaderOfLastPage == []C24_State /\ [][C24_Step]_cnavVars

C24_Witness ==
    /\ cnavOp.name = "have_new_ephemeris" /\ ret = TRUE
    /\ lastHeader = OtherSatellite
    /\ ephemeris_record.i_satellite_PRN = OtherSatellite.prn
    /\ ephemeris_record.d_Toe1 = ephemeris_record.d_Toe2
    /\ ephemeris_record.d_Toe1 = 4 * CNAV_LSB("CNAV_TOE1_LSB")

====
